---- MODULE Spec2Model ----
(***************************************************************************)
(* Order -> video-URL store and QR scan redirect of the embedded-app       *)
(* backend (web/index.js).  Text is modelled as a sequence of tokens: a    *)
(* token is one character, or a literal of the source that holds only      *)
(* characters encodeURIComponent leaves alone and no "-".                   *)
(***************************************************************************)
EXTENDS Integers, Sequences, FiniteSets, TLC

\* ------------------------------------------------------------------ bounds
\* Requests issued in one behaviour.
MaxRequests == 3
\* Store or encoder faults in one behaviour.
MaxFaults == 1
\* Prices tried below each tier threshold, in cents.
MaxDelta == 1
\* Digits of the longest phone number tried (PhoneTagLen + 1 and beyond).
MaxDigits == 11
\* Non-digit characters inserted into a phone number.
MaxSeps == 1
\* Length of the opaque order ids tried.
MaxIdLen == 2

\* ------------------------------------------------------------------ text
undefined == <<"undefined">>
Digits == <<"0", "1", "2", "3", "4", "5", "6", "7", "8", "9">>
IsDigit(c) == \E i \in 1..10 : Digits[i] = c
DigitVal(c) == (CHOOSE i \in 1..10 : Digits[i] = c) - 1
Max(a, b) == IF a > b THEN a ELSE b
Min(a, b) == IF a < b THEN a ELSE b

RECURSIVE Pow10(_)
Pow10(k) == IF k = 0 THEN 1 ELSE 10 * Pow10(k - 1)

\* Number.prototype.toString / String(n) of a non-negative integer.
RECURSIVE NumToString(_)
NumToString(n) ==
  IF n < 10 THEN <<Digits[n + 1]>>
  ELSE NumToString(n \div 10) \o <<Digits[(n % 10) + 1]>>

\* JS truthiness of a string-or-undefined value.
Truthy(s) == s # undefined /\ s # <<>>

\* s.replace(/[^\d]/g, '')
StripNonDigits(s) == SelectSeq(s, IsDigit)

\* s.slice(-n)
SliceLast(s, n) == SubSeq(s, Max(1, Len(s) - n + 1), Len(s))

\* Variant: the prefix keeps the separator.
SplitFirstKeepDash(s) ==
  IF \E i \in 1..Len(s) : s[i] = "-"
  THEN SubSeq(s, 1, CHOOSE i \in 1..Len(s) :
                      s[i] = "-" /\ \A j \in 1..(i - 1) : s[j] # "-")
  ELSE s

\* Variant: the text before the last separator.
SplitLast(s) ==
  IF \E i \in 1..Len(s) : s[i] = "-"
  THEN SubSeq(s, 1, (CHOOSE i \in 1..Len(s) :
                       s[i] = "-" /\ \A j \in (i + 1)..Len(s) : s[j] # "-") - 1)
  ELSE s

\* s.split('-')[0]
SplitFirst(s) ==
  IF \E i \in 1..Len(s) : s[i] = "-"
  THEN SubSeq(s, 1, (CHOOSE i \in 1..Len(s) :
                       s[i] = "-" /\ \A j \in 1..(i - 1) : s[j] # "-") - 1)
  ELSE s

\* encodeURIComponent: every character but A-Z a-z 0-9 - _ . ! ~ * ' ( )
\* becomes %XX of its code.
PctCode == [c \in {":", "/", " ", "+", "?", "="} |->
              CASE c = ":" -> <<"%", "3", "A">>
                [] c = "/" -> <<"%", "2", "F">>
                [] c = " " -> <<"%", "2", "0">>
                [] c = "+" -> <<"%", "2", "B">>
                [] c = "?" -> <<"%", "3", "F">>
                [] c = "=" -> <<"%", "3", "D">>]
RECURSIVE encodeURIComponent(_)
encodeURIComponent(s) ==
  IF s = <<>> THEN <<>>
  ELSE (IF Head(s) \in DOMAIN PctCode THEN PctCode[Head(s)] ELSE <<Head(s)>>)
       \o encodeURIComponent(Tail(s))

\* Length of the run of digits of s that starts at position i.
RECURSIVE DigitRun(_, _)
DigitRun(s, i) ==
  IF i <= Len(s) /\ IsDigit(s[i]) THEN 1 + DigitRun(s, i + 1) ELSE 0

RECURSIVE DigitsValue(_)
DigitsValue(s) ==
  IF s = <<>> THEN 0
  ELSE 10 * DigitsValue(SubSeq(s, 1, Len(s) - 1)) + DigitVal(s[Len(s)])

\* parseFloat: the longest prefix that is a decimal literal (sign, digits,
\* point, digits); NaN when there is none.  The value is num / den.  The
\* texts tried hold no exponent part, no "Infinity" and no leading blanks.
NaN == [nan |-> TRUE, num |-> 0, den |-> 1]
parseFloat(v) ==
  IF v = undefined THEN NaN
  ELSE
    LET signed == Len(v) >= 1 /\ v[1] \in {"-", "+"}
        i0     == IF signed THEN 2 ELSE 1
        ni     == DigitRun(v, i0)
        dot    == i0 + ni <= Len(v) /\ v[i0 + ni] = "."
        nf     == IF dot THEN DigitRun(v, i0 + ni + 1) ELSE 0
        int    == DigitsValue(SubSeq(v, i0, i0 + ni - 1))
        frac   == DigitsValue(SubSeq(v, i0 + ni + 1, i0 + ni + nf))
        mag    == int * Pow10(nf) + frac
    IN IF ni + nf = 0 THEN NaN
       ELSE [nan |-> FALSE,
             num |-> IF signed /\ v[1] = "-" THEN 0 - mag ELSE mag,
             den |-> Pow10(nf)]

\* total < n of JavaScript: false when total is NaN.
LessThan(total, n) == ~total.nan /\ total.num < n * total.den


\* --------------------------------------------------------- configuration
\* process.env.HOST and process.env.MEDIA_BASE_URL of one deployment.
HOST == <<"https", ":", "/", "/", "app.example">>
MEDIA_BASE_URL == <<"https", ":", "/", "/", "cdn.example", "/", "videos">>
\* .slice(-10)
PhoneTagLen == 10
\* total < 50 ? ... : total < 200 ? ...
SmallLimit == 50
MediumLimit == 200

\* ------------------------------------------------------------ JSON values
\* order.id of a webhook payload: a number, a string, or absent.
JNum(n) == [t |-> "num", n |-> n, s |-> <<>>]
JStr(s) == [t |-> "str", n |-> 0, s |-> s]
JUndef == [t |-> "undef", n |-> 0, s |-> <<>>]

\* order.id.toString(); callers handle the TypeError of an absent id.
IdToString(v) == IF v.t = "num" THEN NumToString(v.n) ELSE v.s

\* ------------------------------------------------------------------ store
\* The orders table: a set of rows (id TEXT PRIMARY KEY, video_url TEXT).
Row(id, url) == [id |-> id, video_url |-> url]

\* Variant: ON CONFLICT(id) DO NOTHING.
UpsertKeepOld(rows, id, url) ==
  IF \E r \in rows : r.id = id
  THEN [ok |-> TRUE, rows |-> rows]
  ELSE [ok |-> TRUE, rows |-> rows \cup {Row(id, url)}]

\* Variant: a plain INSERT, rejected by the primary key on conflict.
InsertOnly(rows, id, url) ==
  IF \E r \in rows : r.id = id
  THEN [ok |-> FALSE, rows |-> rows]
  ELSE [ok |-> TRUE, rows |-> rows \cup {Row(id, url)}]

\* Variant: a table without the primary key, where a conflict adds a row.
InsertDuplicate(rows, id, url) == [ok |-> TRUE, rows |-> rows \cup {Row(id, url)}]

\* Variant: the table is emptied before the insert.
UpsertReplaceAll(rows, id, url) == [ok |-> TRUE, rows |-> {Row(id, url)}]

\* Variant: the update has no WHERE clause and sets every row.
UpsertAllRows(rows, id, url) ==
  [ok |-> TRUE, rows |-> {Row(r.id, url) : r \in rows} \cup {Row(id, url)}]

\* INSERT INTO orders (id, video_url) VALUES (?, ?)
\*   ON CONFLICT(id) DO UPDATE SET video_url=excluded.video_url;
\* ok is FALSE when the statement is rejected.
UpsertStmt(rows, id, url) ==
  IF \E r \in rows : r.id = id
  THEN [ok |-> TRUE, rows |-> {r \in rows : r.id # id} \cup {Row(id, url)}]
  ELSE [ok |-> TRUE, rows |-> rows \cup {Row(id, url)}]

\* Variant: the WHERE clause is lost and the first row of the table is taken.
SelectAnyRow(rows, id) ==
  IF rows # {}
  THEN [found |-> TRUE, video_url |-> (CHOOSE r \in rows : TRUE).video_url]
  ELSE [found |-> FALSE, video_url |-> <<>>]

\* SELECT video_url FROM orders WHERE id = ?  (db.get: the first row or none)
SelectStmt(rows, id) ==
  IF \E r \in rows : r.id = id
  THEN [found |-> TRUE, video_url |-> (CHOOSE r \in rows : r.id = id).video_url]
  ELSE [found |-> FALSE, video_url |-> <<>>]

\* ----------------------------------------------------- webhook computation
\* Variant: .slice(0, 10), the first digits instead of the last.
WebhookPhoneFirst(phone) ==
  LET digits == StripNonDigits(IF Truthy(phone) THEN phone ELSE <<>>)
  IN SubSeq(digits, 1, Min(Len(digits), PhoneTagLen))

\* (order.customer?.phone || '').replace(/[^\d]/g, '').slice(-10)
WebhookPhone(phone) ==
  SliceLast(StripNonDigits(IF Truthy(phone) THEN phone ELSE <<>>), PhoneTagLen)

\* Variant: <= in place of <.
WebhookFileInclusive(total) ==
  IF ~total.nan /\ total.num <= SmallLimit * total.den THEN "small.mp4"
  ELSE IF ~total.nan /\ total.num <= MediumLimit * total.den THEN "medium.mp4"
  ELSE "large.mp4"

\* total < 50 ? 'small.mp4' : total < 200 ? 'medium.mp4' : 'large.mp4'
WebhookFile(total) ==
  IF LessThan(total, SmallLimit) THEN "small.mp4"
  ELSE IF LessThan(total, MediumLimit) THEN "medium.mp4"
  ELSE "large.mp4"

\* `${MEDIA_BASE_URL}/${file}`
WebhookVideoUrl(total_price) ==
  MEDIA_BASE_URL \o <<"/", WebhookFile(parseFloat(total_price))>>

\* `${HOST}/qr/${orderId}-${phone || 'unknown'}`
WebhookLink(orderId, phone) ==
  HOST \o <<"/qr/">> \o orderId \o <<"-">>
       \o (IF Truthy(phone) THEN phone ELSE <<"unknown">>)

\* Second variant of the handler:
\* (order.customer?.phone || "unknown").replace(/[^\d]/g, "") || "unknown"
WebhookPhone2(phone) ==
  LET digits == StripNonDigits(IF Truthy(phone) THEN phone ELSE <<"unknown">>)
  IN IF Truthy(digits) THEN digits ELSE <<"unknown">>

\* Second variant: `${HOST}/qr/${orderId}-${phone}`
WebhookLink2(orderId, phone) == HOST \o <<"/qr/">> \o orderId \o <<"-">> \o phone

\* QRCode.toDataURL(link): the data URI that encodes the text.
ToDataURL(text) == <<"data:image/png;base64,">> \o text

\* The :orderMobile parameter express extracts from a GET of the link.
RouteQr(link) == SubSeq(link, Len(HOST) + 2, Len(link))

\* Variant: the URL is appended without encodeURIComponent.
RedirectTargetRaw(video_url) == HOST \o <<"/video-player.html?video=">> \o video_url

\* `${HOST}/video-player.html?video=${encodeURIComponent(row.video_url)}`
RedirectTarget(video_url) ==
  HOST \o <<"/video-player.html?video=">> \o encodeURIComponent(video_url)

\* ----------------------------------------------------------------- inputs
ManualUrl == <<"https", ":", "/", "/", "cdn.example", "/", "my", " ", "clip.mp4">>
OrderIdParams == {<<"1">>, <<"1", "-", "2">>}
\* (orderId, videoUrl) of a manual save; the route needs a non-empty orderId.
SaveInputs ==
  {<<id, ManualUrl>> : id \in OrderIdParams} \cup {<<<<"1">>, u>> : u \in {<<>>, undefined}}

\* A price in cents as the platform writes it: "49.99".
PriceText(c) ==
  NumToString(c \div 100) \o <<".", Digits[((c \div 10) % 10) + 1], Digits[(c % 10) + 1]>>
PriceCents ==
  {100 * limit - d : limit \in {SmallLimit, MediumLimit}, d \in 0..MaxDelta}
MalformedPrices == {<<"a", "b", "c">>, undefined}
WebhookPrices == {PriceText(c) : c \in PriceCents} \cup MalformedPrices
WebhookIds == {JNum(1), JStr(<<"1", "-", "2">>), JStr(<<>>), JUndef}
SamplePhone ==
  <<"+", "1", " ", "(", "5", "5", "5", ")", " ", "1", "2", "3", "-", "4", "5", "6", "7">>
WebhookPhones == {undefined, SamplePhone}
Body(id, phone, price) == [id |-> id, phone |-> phone, total_price |-> price]
BaseBody == Body(JNum(1), undefined, PriceText(100 * SmallLimit))
\* Payloads that differ from BaseBody in at most one field.
WebhookBodies ==
  {Body(id, BaseBody.phone, BaseBody.total_price) : id \in WebhookIds}
  \cup {Body(BaseBody.id, ph, BaseBody.total_price) : ph \in WebhookPhones}
  \cup {Body(BaseBody.id, BaseBody.phone, p) : p \in WebhookPrices}
\* The links a webhook can hand out, as scanned.
ScanTags ==
  {RouteQr(WebhookLink(IdToString(b.id), WebhookPhone(b.phone))) :
     b \in {x \in WebhookBodies : x.id # JUndef}}

\* ------------------------------------------------------------------ state
VARIABLES dbState, orders, reqs, clock
vars == <<dbState, orders, reqs, clock>>

NoBody == Body(JUndef, undefined, undefined)
\* What the platform answers to the listing handler: whether a session is
\* stored for the shop, whether the orders call fails, the ids of body.orders.
Platform(session, apiError, ids) == [session |-> session, apiError |-> apiError, ids |-> ids]
NoPlatform == Platform(FALSE, FALSE, <<>>)
\* A request being handled: its input, the handler's locals, its response.
\* at is the position of its statement among the statements the store ran,
\* tries the number of statements it sent to the store.  hmacOk tells
\* whether the request carries a valid platform signature, platform what the
\* platform answers; loaded and fetched record the calls made to the
\* platform, items the lookups of a listing.
Request(kind, param, videoUrlIn, body) ==
  [kind |-> kind, pc |-> "db", param |-> param, videoUrlIn |-> videoUrlIn,
   body |-> body, orderId |-> <<>>, phone |-> <<>>, videoUrl |-> <<>>,
   link |-> <<>>, status |-> 0, out |-> <<>>, at |-> 0,
   wrote |-> FALSE, ioerr |-> FALSE, qrerr |-> FALSE,
   tries |-> 0, hmacOk |-> TRUE, platform |-> NoPlatform,
   loaded |-> FALSE, fetched |-> FALSE, items |-> <<>>]

Respond(r, status, out) == [r EXCEPT !.pc = "done", !.status = status, !.out = out]

Init ==
  /\ dbState = "opening"
  /\ orders = {}
  /\ reqs = <<>>
  /\ clock = 0

\* dbPromise: open() and CREATE TABLE IF NOT EXISTS succeed.
DbOpen ==
  /\ dbState = "opening"
  /\ dbState' = "ready"
  /\ UNCHANGED <<orders, reqs, clock>>

\* dbPromise rejects.
DbOpenFail ==
  /\ dbState = "opening"
  /\ dbState' = "failed"
  /\ UNCHANGED <<orders, reqs, clock>>

\* A further request can arrive.
Accepting == Len(reqs) < MaxRequests

\* Faults so far: rejected store statements and failed QR encodings.
Faults == Cardinality({i \in 1..Len(reqs) : reqs[i].ioerr \/ reqs[i].qrerr})
\* The outcomes of a call that may fail.
MayFail == IF Faults < MaxFaults THEN BOOLEAN ELSE {FALSE}

\* POST /api/orders/:orderId/video, up to `await dbPromise`.
SaveVideo(orderId, videoUrl) ==
  /\ Accepting
  /\ LET r == [Request("save", orderId, videoUrl, NoBody) EXCEPT
                 !.orderId = orderId,
                 !.videoUrl = IF Truthy(videoUrl) THEN videoUrl ELSE <<>>]
     IN reqs' = Append(reqs, IF ~Truthy(videoUrl) THEN Respond(r, 400, <<"Missing videoUrl">>)
                             ELSE r)
  /\ UNCHANGED <<dbState, orders, clock>>

\* Variant: a handler goes on while dbPromise is still pending.
PendingUngated(i, kind) ==
  /\ i \in 1..Len(reqs)
  /\ reqs[i].kind = kind
  /\ reqs[i].pc = "db"

\* Variant: a scan answered 404 is kept and answered again later.
PendingOrNotFound(i, kind) ==
  /\ i \in 1..Len(reqs)
  /\ reqs[i].kind = kind
  /\ reqs[i].pc = "db" \/ (reqs[i].pc = "done" /\ reqs[i].status = 404)
  /\ dbState # "opening"

\* The request i of the given kind is past its `await dbPromise`: the
\* promise is settled.
Pending(i, kind) ==
  /\ i \in 1..Len(reqs)
  /\ reqs[i].kind = kind
  /\ reqs[i].pc = "db"
  /\ dbState # "opening"

\* Statements a handler sends once dbPromise is settled: none when it rejected.
Sent == IF dbState = "failed" THEN 0 ELSE 1

\* Variant: the catch block sends the request through the handler again.
SaveVideoRetry(r) == [r EXCEPT !.pc = "db"]

\* catch (err) { res.status(500).json({ error: err.message }) } of the save.
SaveVideoCatch(r) == Respond(r, 500, <<"error">>)

\* POST /api/orders/:orderId/video, from `await dbPromise` to the response.
SaveVideoRun(i) ==
  /\ Pending(i, "save")
  /\ \E fail \in MayFail :
       LET r    == reqs[i]
           ioerr == dbState = "failed" \/ fail
           res  == IF ioerr THEN [ok |-> FALSE, rows |-> orders]
                   ELSE UpsertStmt(orders, r.orderId, r.videoUrl)
           r2   == [r EXCEPT !.at = clock + 1, !.wrote = res.ok, !.ioerr = ioerr,
                             !.tries = r.tries + Sent]
       IN /\ orders' = res.rows
          /\ reqs' = [reqs EXCEPT ![i] =
                        IF res.ok THEN Respond(r2, 200, <<"success">>)
                        ELSE SaveVideoCatch(r2)]
  /\ clock' = clock + 1
  /\ UNCHANGED dbState

\* GET /api/orders/:orderId, up to `await dbPromise`.
GetOrder(orderId) ==
  /\ Accepting
  /\ reqs' = Append(reqs, [Request("get", orderId, undefined, NoBody) EXCEPT
                             !.orderId = orderId])
  /\ UNCHANGED <<dbState, orders, clock>>

\* GET /api/orders/:orderId, from `await dbPromise` to the response.
GetOrderRun(i) ==
  /\ Pending(i, "get")
  /\ \E fail \in MayFail :
       LET r     == reqs[i]
           ioerr == dbState = "failed" \/ fail
           row   == SelectStmt(orders, r.orderId)
           r2    == [r EXCEPT !.at = clock + 1, !.ioerr = ioerr, !.tries = r.tries + Sent]
       IN reqs' = [reqs EXCEPT ![i] =
                     IF ioerr THEN Respond(r2, 500, <<"error">>)
                     ELSE IF ~row.found THEN Respond(r2, 404, <<"Order not found">>)
                     ELSE Respond(r2, 200, row.video_url)]
  /\ clock' = clock + 1
  /\ UNCHANGED <<dbState, orders>>

\* POST /webhook/orders/create, up to `await dbPromise`, of a request whose
\* platform signature is valid (hmacOk) or not.  The route is mounted on the
\* app itself: no middleware reads the signature before the handler runs.
WebhookOrdersCreateFrom(body, hmacOk) ==
  /\ Accepting
  /\ LET r == [Request("webhook", <<>>, undefined, body) EXCEPT !.hmacOk = hmacOk]
     IN reqs' = Append(reqs,
          IF body.id = JUndef
          THEN Respond(r, 500, <<"Error generating QR">>)
          ELSE [r EXCEPT !.orderId = IdToString(body.id),
                         !.phone = WebhookPhone(body.phone),
                         !.videoUrl = WebhookVideoUrl(body.total_price)])
  /\ UNCHANGED <<dbState, orders, clock>>

\* POST /webhook/orders/create of an event the platform delivers.
WebhookOrdersCreate(body) == WebhookOrdersCreateFrom(body, TRUE)

\* POST /webhook/orders/create of the second variant, up to `await dbPromise`.
WebhookOrdersCreate2(body) ==
  /\ Accepting
  /\ LET r == Request("webhook2", <<>>, undefined, body)
     IN reqs' = Append(reqs,
          IF body.id = JUndef
          THEN Respond(r, 500, <<"Error generating QR">>)
          ELSE [r EXCEPT !.orderId = IdToString(body.id),
                         !.phone = WebhookPhone2(body.phone),
                         !.videoUrl = WebhookVideoUrl(body.total_price)])
  /\ UNCHANGED <<dbState, orders, clock>>

\* Variant: the link is built and encoded before the upsert, which is
\* skipped when the encoding fails.
WebhookRunEncodeFirst(i, kind) ==
  /\ Pending(i, kind)
  /\ \E fail \in MayFail, qrfail \in MayFail :
       LET r     == reqs[i]
           ioerr == dbState = "failed" \/ fail
           res   == IF ioerr \/ qrfail THEN [ok |-> FALSE, rows |-> orders]
                    ELSE UpsertStmt(orders, r.orderId, r.videoUrl)
           link  == IF kind = "webhook" THEN WebhookLink(r.orderId, r.phone)
                    ELSE WebhookLink2(r.orderId, r.phone)
           r2    == [r EXCEPT !.at = clock + 1, !.wrote = res.ok, !.ioerr = ioerr,
                              !.tries = r.tries + (IF qrfail THEN 0 ELSE Sent),
                              !.qrerr = ~ioerr /\ qrfail,
                              !.link = IF res.ok THEN link ELSE <<>>]
       IN /\ ~(fail /\ qrfail)
          /\ orders' = res.rows
          /\ reqs' = [reqs EXCEPT ![i] =
                        IF res.ok THEN Respond(r2, 200, ToDataURL(link))
                        ELSE Respond(r2, 500, <<"Error generating QR">>)]
  /\ clock' = clock + 1
  /\ UNCHANGED dbState

\* Either variant of the webhook, from `await dbPromise` to the response.
WebhookRun(i, kind) ==
  /\ Pending(i, kind)
  /\ \E fail \in MayFail, qrfail \in MayFail :
       LET r     == reqs[i]
           ioerr == dbState = "failed" \/ fail
           res   == IF ioerr THEN [ok |-> FALSE, rows |-> orders]
                    ELSE UpsertStmt(orders, r.orderId, r.videoUrl)
           link  == IF kind = "webhook" THEN WebhookLink(r.orderId, r.phone)
                    ELSE WebhookLink2(r.orderId, r.phone)
           r2    == [r EXCEPT !.at = clock + 1, !.wrote = res.ok, !.ioerr = ioerr,
                              !.tries = r.tries + Sent,
                              !.qrerr = res.ok /\ qrfail,
                              !.link = IF res.ok THEN link ELSE <<>>]
       IN /\ ~(fail /\ qrfail)
          /\ orders' = res.rows
          /\ reqs' = [reqs EXCEPT ![i] =
                        IF res.ok /\ ~qrfail THEN Respond(r2, 200, ToDataURL(link))
                        ELSE Respond(r2, 500, <<"Error generating QR">>)]
  /\ clock' = clock + 1
  /\ UNCHANGED dbState

WebhookOrdersCreateRun(i) == WebhookRun(i, "webhook")
WebhookOrdersCreate2Run(i) == WebhookRun(i, "webhook2")

\* GET /qr/:orderMobile, up to `await dbPromise`.
QrRedirect(orderMobile) ==
  /\ Accepting
  /\ reqs' = Append(reqs, [Request("scan", orderMobile, undefined, NoBody) EXCEPT
                             !.orderId = SplitFirst(orderMobile)])
  /\ UNCHANGED <<dbState, orders, clock>>

\* GET /qr/:orderMobile, from `await dbPromise` to the response.
QrRedirectRun(i) ==
  /\ Pending(i, "scan")
  /\ \E fail \in MayFail :
       LET r     == reqs[i]
           ioerr == dbState = "failed" \/ fail
           row   == SelectStmt(orders, r.orderId)
           r2    == [r EXCEPT !.at = clock + 1, !.ioerr = ioerr, !.tries = r.tries + Sent]
       IN reqs' = [reqs EXCEPT ![i] =
                     IF ioerr THEN Respond(r2, 500, <<"Redirect Error">>)
                     ELSE IF ~row.found THEN Respond(r2, 404, <<"Order not found">>)
                     ELSE Respond(r2, 302, RedirectTarget(row.video_url))]
  /\ clock' = clock + 1
  /\ UNCHANGED <<dbState, orders>>

\* Variant of the scan handler without try/catch (second variant of the
\* file), up to `await dbPromise`.
QrRedirect2(orderMobile) ==
  /\ Accepting
  /\ reqs' = Append(reqs, [Request("scan2", orderMobile, undefined, NoBody) EXCEPT
                             !.orderId = SplitFirst(orderMobile)])
  /\ UNCHANGED <<dbState, orders, clock>>

\* The same, from `await dbPromise` on.  A rejection of dbPromise or of
\* db.get leaves the async handler: no response is sent (pc "escaped").
QrRedirect2Run(i) ==
  /\ Pending(i, "scan2")
  /\ \E fail \in MayFail :
       LET r     == reqs[i]
           ioerr == dbState = "failed" \/ fail
           row   == SelectStmt(orders, r.orderId)
           r2    == [r EXCEPT !.at = clock + 1, !.ioerr = ioerr, !.tries = r.tries + Sent]
       IN reqs' = [reqs EXCEPT ![i] =
                     IF ioerr THEN [r2 EXCEPT !.pc = "escaped"]
                     ELSE IF ~row.found THEN Respond(r2, 404, <<"Order not found">>)
                     ELSE Respond(r2, 302, RedirectTarget(row.video_url))]
  /\ clock' = clock + 1
  /\ UNCHANGED <<dbState, orders>>

\* Variant: the session is looked up before the shop parameter is checked.
ListOrdersGateSessionFirst(r) ==
  LET r1 == [r EXCEPT !.loaded = TRUE]
      r2 == [r1 EXCEPT !.fetched = TRUE]
  IN IF ~r.platform.session THEN Respond(r1, 403, <<"No session">>)
     ELSE IF ~Truthy(r.param) THEN Respond(r1, 400, <<"Missing shop">>)
     ELSE IF r.platform.apiError THEN Respond(r2, 500, <<"error">>)
     ELSE r2

\* GET /api/orders: the shop check, loadSession, the session check and the
\* orders call of the platform client.
ListOrdersGate(r) ==
  LET r1 == [r EXCEPT !.loaded = TRUE]
      r2 == [r1 EXCEPT !.fetched = TRUE]
  IN IF ~Truthy(r.param) THEN Respond(r, 400, <<"Missing shop">>)
     ELSE IF ~r.platform.session THEN Respond(r1, 403, <<"No session">>)
     ELSE IF r.platform.apiError THEN Respond(r2, 500, <<"error">>)
     ELSE r2

\* GET /api/orders, up to `await dbPromise`.
ListOrders(shop, platform) ==
  /\ Accepting
  /\ reqs' = Append(reqs, ListOrdersGate(
                [Request("list", shop, undefined, NoBody) EXCEPT !.platform = platform]))
  /\ UNCHANGED <<dbState, orders, clock>>

\* One pending lookup per order of body.orders, in the platform's order.
PendingItems(ids) ==
  [k \in 1..Len(ids) |-> [id |-> ids[k], video_url |-> <<>>, at |-> 0]]
\* res.json(enriched): { ...o, video_url } per order.
Enriched(items) ==
  [k \in 1..Len(items) |-> [id |-> items[k].id, video_url |-> items[k].video_url]]

\* GET /api/orders, `await dbPromise` and body.orders.map: every db.get is
\* issued; Promise.all of no lookups resolves at once.
ListOrdersRun(i) ==
  /\ Pending(i, "list")
  /\ LET r == reqs[i]
     IN reqs' = [reqs EXCEPT ![i] =
                   IF dbState = "failed" THEN Respond([r EXCEPT !.ioerr = TRUE], 500, <<"error">>)
                   ELSE IF r.platform.ids = <<>> THEN Respond(r, 200, <<>>)
                   ELSE [r EXCEPT !.pc = "lookup", !.items = PendingItems(r.platform.ids)]]
  /\ UNCHANGED <<dbState, orders, clock>>

\* Variant: an order without a record raises a not-found error.
LookupResultStrict(row) == [ok |-> row.found, video_url |-> row.video_url]

\* row?.video_url || ''
LookupResult(row) ==
  [ok |-> TRUE,
   video_url |-> IF row.found /\ Truthy(row.video_url) THEN row.video_url ELSE <<>>]

\* GET /api/orders: the db.get of the k-th order answers; Promise.all
\* rejects on the first failure and resolves after the last answer.
ListOrdersLookup(i, k) ==
  /\ i \in 1..Len(reqs)
  /\ reqs[i].kind = "list"
  /\ reqs[i].pc = "lookup"
  /\ k \in 1..Len(reqs[i].items)
  /\ reqs[i].items[k].at = 0
  /\ \E fail \in MayFail :
       LET r     == reqs[i]
           res   == LookupResult(SelectStmt(orders, IdToString(r.items[k].id)))
           items == [r.items EXCEPT ![k].video_url = res.video_url, ![k].at = clock + 1]
           r2    == [r EXCEPT !.at = clock + 1, !.tries = r.tries + 1,
                              !.ioerr = fail, !.items = items]
       IN reqs' = [reqs EXCEPT ![i] =
                     IF fail \/ ~res.ok THEN Respond(r2, 500, <<"error">>)
                     ELSE IF \A j \in 1..Len(items) : items[j].at > 0
                          THEN Respond(r2, 200, Enriched(items))
                          ELSE r2]
  /\ clock' = clock + 1
  /\ UNCHANGED <<dbState, orders>>

\* GET /api/qr: the whole handler; it never reaches the store.
QrPreview(data) ==
  /\ Accepting
  /\ \E qrfail \in MayFail :
       LET r == Request("qr", data, undefined, NoBody)
       IN /\ qrfail => Truthy(data)
          /\ reqs' = Append(reqs,
               IF ~Truthy(data) THEN Respond(r, 400, <<"Missing data">>)
               ELSE IF qrfail THEN Respond([r EXCEPT !.qrerr = TRUE], 500, <<"QR Generation Error">>)
               ELSE Respond(r, 200, ToDataURL(data)))
  /\ UNCHANGED <<dbState, orders, clock>>

Next ==
  \/ DbOpen
  \/ DbOpenFail
  \/ Accepting /\ \E in \in SaveInputs : SaveVideo(in[1], in[2])
  \/ \E i \in 1..Len(reqs) : SaveVideoRun(i)
  \/ Accepting /\ \E id \in OrderIdParams : GetOrder(id)
  \/ \E i \in 1..Len(reqs) : GetOrderRun(i)
  \/ Accepting /\ \E b \in WebhookBodies : WebhookOrdersCreate(b)
  \/ \E i \in 1..Len(reqs) : WebhookOrdersCreateRun(i)
  \/ Accepting /\ \E t \in ScanTags : QrRedirect(t)
  \/ \E i \in 1..Len(reqs) : QrRedirectRun(i)

Spec == Init /\ [][Next]_vars

\* ------------------------------------------------- scan links, one by one
\* One webhook (either variant) over a wide range of ids and phones,
\* followed by a scan of the link it built.
IdChars == {"7", "a", "-"}
RECURSIVE TextsUpTo(_)
TextsUpTo(n) ==
  IF n = 0 THEN {<<>>}
  ELSE LET shorter == TextsUpTo(n - 1)
       IN shorter \cup {Append(t, c) : t \in {x \in shorter : Len(x) = n - 1}, c \in IdChars}
TagIds == {JStr(t) : t \in TextsUpTo(MaxIdLen)} \cup {JNum(0), JNum(12)}

\* A phone of n digits (1, 2, ..., 9, 0, 1, ...) with a "-" after k digits
\* for every k in seps.
RECURSIVE PhoneFrom(_, _, _)
PhoneFrom(k, n, seps) ==
  (IF k \in seps THEN <<"-">> ELSE <<>>)
  \o (IF k < n THEN <<Digits[((k + 1) % 10) + 1]>> \o PhoneFrom(k + 1, n, seps) ELSE <<>>)
PhoneOf(n, seps) == PhoneFrom(0, n, seps)
SepSets(n) == {S \in SUBSET (0..n) : Cardinality(S) <= MaxSeps}
TagPhones ==
  {undefined} \cup UNION {{PhoneOf(n, S) : S \in SepSets(n)} : n \in 0..MaxDigits}
TagBodies == {Body(id, ph, BaseBody.total_price) : id \in TagIds, ph \in TagPhones}

FirstWebhook == Len(reqs) = 0 /\ \E b \in TagBodies : WebhookOrdersCreate(b)
FirstWebhook2 == Len(reqs) = 0 /\ \E b \in TagBodies : WebhookOrdersCreate2(b)
ScanOfLink ==
  /\ Len(reqs) = 1
  /\ reqs[1].pc = "done"
  /\ reqs[1].status = 200
  /\ QrRedirect(RouteQr(reqs[1].link))

NextTag ==
  \/ DbOpen
  \/ FirstWebhook
  \/ FirstWebhook2
  \/ WebhookOrdersCreateRun(1)
  \/ WebhookOrdersCreate2Run(1)
  \/ ScanOfLink
  \/ QrRedirectRun(2)

SpecTag == Init /\ [][NextTag]_vars

\* ------------------------------------------- every endpoint, few inputs
\* All the handlers of the first variant, each over a few inputs: two order
\* ids, one of which the webhook writes too, and a listing of both.
AppShop == <<"shop.example">>
AppOrders == <<JNum(2), JNum(1)>>
ListInputs ==
  {<<shop, Platform(session, FALSE, AppOrders)>> :
     shop \in {undefined, AppShop}, session \in BOOLEAN}
  \cup {<<AppShop, Platform(TRUE, TRUE, <<>>)>>, <<AppShop, Platform(TRUE, FALSE, <<>>)>>}
AppSaves == {<<NumToString(n), ManualUrl>> : n \in {1, 2}}
AppGets == {NumToString(1)}
AppDeliveries == {<<BaseBody, valid>> : valid \in BOOLEAN}
AppTag == RouteQr(WebhookLink(IdToString(BaseBody.id), WebhookPhone(BaseBody.phone)))
PreviewInputs == {undefined, WebhookLink(IdToString(BaseBody.id), <<>>)}

NextApp ==
  \/ DbOpen
  \/ DbOpenFail
  \/ Accepting /\ \E in \in AppSaves : SaveVideo(in[1], in[2])
  \/ \E i \in 1..Len(reqs) : SaveVideoRun(i)
  \/ Accepting /\ \E id \in AppGets : GetOrder(id)
  \/ \E i \in 1..Len(reqs) : GetOrderRun(i)
  \/ Accepting /\ \E in \in ListInputs : ListOrders(in[1], in[2])
  \/ \E i \in 1..Len(reqs) : ListOrdersRun(i)
  \/ \E i \in 1..Len(reqs) : \E k \in 1..Len(reqs[i].items) : ListOrdersLookup(i, k)
  \/ Accepting /\ \E data \in PreviewInputs : QrPreview(data)
  \/ Accepting /\ \E in \in AppDeliveries : WebhookOrdersCreateFrom(in[1], in[2])
  \/ \E i \in 1..Len(reqs) : WebhookOrdersCreateRun(i)
  \/ Accepting /\ QrRedirect(AppTag)
  \/ \E i \in 1..Len(reqs) : QrRedirectRun(i)

SpecApp == Init /\ [][NextApp]_vars

\* ------------------------------------------------------- second variant
\* The handlers of the second variant of the file that reach the store.
NextV2 ==
  \/ DbOpen
  \/ DbOpenFail
  \/ Accepting /\ \E in \in SaveInputs : SaveVideo(in[1], in[2])
  \/ \E i \in 1..Len(reqs) : SaveVideoRun(i)
  \/ Accepting /\ \E b \in WebhookBodies : WebhookOrdersCreate2(b)
  \/ \E i \in 1..Len(reqs) : WebhookOrdersCreate2Run(i)
  \/ Accepting /\ \E t \in ScanTags : QrRedirect2(t)
  \/ \E i \in 1..Len(reqs) : QrRedirect2Run(i)

SpecV2 == Init /\ [][NextV2]_vars

\* ------------------------------------------------------- reading the log
Range(f) == {f[x] : x \in DOMAIN f}
Done(i) == reqs[i].pc = "done"
IsWrite(i) == reqs[i].kind \in {"save", "webhook", "webhook2"}
IsRead(i) == reqs[i].kind \in {"get", "scan"}
\* The key and the value a write request asks for, from its input.
WriteId(i) == IF reqs[i].kind = "save" THEN reqs[i].param ELSE IdToString(reqs[i].body.id)
WriteUrl(i) ==
  IF reqs[i].kind = "save" THEN reqs[i].videoUrlIn
  ELSE WebhookVideoUrl(reqs[i].body.total_price)
\* The text of a tag before its first "-".
TagOrderId(t) ==
  CHOOSE p \in {SubSeq(t, 1, k) : k \in 0..Len(t)} :
    "-" \notin Range(p) /\ (Len(p) = Len(t) \/ t[Len(p) + 1] = "-")
\* The key a read request looks up, from its input.
ReadId(i) == IF reqs[i].kind = "get" THEN reqs[i].param ELSE TagOrderId(reqs[i].param)
\* Writes whose statement the store ran.
CompletedWrite(i) == i \in 1..Len(reqs) /\ IsWrite(i) /\ Done(i) /\ reqs[i].wrote
\* Completed writes of key id that ran before position t.
WritesBefore(id, t) ==
  {j \in 1..Len(reqs) : CompletedWrite(j) /\ WriteId(j) = id /\ reqs[j].at < t}
LatestWrite(id, t) ==
  CHOOSE j \in WritesBefore(id, t) : \A k \in WritesBefore(id, t) : reqs[k].at <= reqs[j].at
\* A read the store answered (a store fault is answered 500 instead).
AnsweredRead(i) == i \in 1..Len(reqs) /\ IsRead(i) /\ Done(i) /\ ~reqs[i].ioerr
RowsOf(id) == {r \in orders : r.id = id}

\* C1: a get of an order id returns the video URL of the most recent
\* completed write (manual save or webhook) for that id.
C1_GetReturnsLatestWrite ==
  \A g \in 1..Len(reqs) :
    (AnsweredRead(g) /\ reqs[g].kind = "get" /\ WritesBefore(reqs[g].param, reqs[g].at) # {})
    => /\ reqs[g].status = 200
       /\ reqs[g].out = WriteUrl(LatestWrite(reqs[g].param, reqs[g].at))

\* Two writes of different URLs for one id, then a get that returns the second.
C1_Witness ==
  \E g, a, b \in 1..Len(reqs) :
    /\ AnsweredRead(g) /\ reqs[g].kind = "get"
    /\ CompletedWrite(a) /\ CompletedWrite(b)
    /\ reqs[a].kind = "save" /\ reqs[b].kind = "webhook"
    /\ WriteId(a) = reqs[g].param /\ WriteId(b) = reqs[g].param
    /\ WriteUrl(a) # WriteUrl(b)
    /\ reqs[a].at < reqs[b].at /\ reqs[b].at < reqs[g].at
    /\ reqs[g].out = WriteUrl(b)

\* C2: the store holds at most one record per order id; a write for an id
\* that already has a record is not rejected, leaves one record for the id
\* and that record holds the written URL, on both write paths.
C2_OneRecordPerId ==
  /\ \A r1, r2 \in orders : r1.id = r2.id => r1 = r2
  /\ \A j \in 1..Len(reqs) :
       (IsWrite(j) /\ Done(j) /\ reqs[j].at > 0 /\ ~reqs[j].ioerr)
       => /\ reqs[j].wrote
          /\ reqs[j].kind = "save" => reqs[j].status = 200
          /\ (reqs[j].kind = "webhook" /\ ~reqs[j].qrerr) => reqs[j].status = 200
          /\ Cardinality(RowsOf(WriteId(j))) = 1
  /\ \A id \in {r.id : r \in orders} :
       WritesBefore(id, clock + 1) # {}
       => Row(id, WriteUrl(LatestWrite(id, clock + 1))) \in orders

\* A webhook wrote an id that a manual save had written before (and the
\* other way round is covered by C1_Witness); one record is left.
C2_Witness ==
  \E a, b \in 1..Len(reqs) :
    /\ CompletedWrite(a) /\ CompletedWrite(b)
    /\ reqs[a].kind = "webhook" /\ reqs[b].kind = "save"
    /\ WriteId(a) = WriteId(b) /\ WriteUrl(a) # WriteUrl(b)
    /\ reqs[a].at < reqs[b].at
    /\ reqs[b].status = 200
    /\ RowsOf(WriteId(b)) = {Row(WriteId(b), WriteUrl(b))}

\* The tier policy, in cents.
PolicyFile(cents) ==
  IF cents < 5000 THEN "small.mp4"
  ELSE IF cents < 20000 THEN "medium.mp4"
  ELSE "large.mp4"

\* C3: for a numeric total price the webhook stores
\* MEDIA_BASE_URL + "/" + tier + ".mp4" with the tier of the policy:
\* below 50 small, from 50 and below 200 medium, from 200 large.
C3_WebhookStoresTier ==
  \A j \in 1..Len(reqs) : \A c \in PriceCents :
    (CompletedWrite(j) /\ reqs[j].kind = "webhook"
       /\ reqs[j].body.total_price = PriceText(c))
    => /\ reqs[j].videoUrl = MEDIA_BASE_URL \o <<"/", PolicyFile(c)>>
       /\ j = LatestWrite(WriteId(j), clock + 1)
            => Row(WriteId(j), MEDIA_BASE_URL \o <<"/", PolicyFile(c)>>) \in orders

\* 49.99 is stored as small, 50.00 as medium and 200.00 as large.
C3_Witness ==
  \E a, b, d \in 1..Len(reqs) :
    /\ CompletedWrite(a) /\ CompletedWrite(b) /\ CompletedWrite(d)
    /\ reqs[a].body.total_price = <<"4", "9", ".", "9", "9">>
    /\ reqs[a].videoUrl = MEDIA_BASE_URL \o <<"/", "small.mp4">>
    /\ reqs[b].body.total_price = <<"5", "0", ".", "0", "0">>
    /\ reqs[b].videoUrl = MEDIA_BASE_URL \o <<"/", "medium.mp4">>
    /\ reqs[d].body.total_price = <<"2", "0", "0", ".", "0", "0">>
    /\ reqs[d].videoUrl = MEDIA_BASE_URL \o <<"/", "large.mp4">>
    /\ Row(<<"1">>, reqs[d].videoUrl) \in orders

\* C4: a new-order event whose total_price does not parse as a finite
\* number is rejected with a validation error and writes no record.
C4_UnparsablePriceRejected ==
  \A j \in 1..Len(reqs) :
    (Done(j) /\ reqs[j].kind = "webhook" /\ reqs[j].body.id # JUndef
       /\ reqs[j].body.total_price \in MalformedPrices /\ ~reqs[j].ioerr)
    => reqs[j].status = 400 /\ ~reqs[j].wrote


\* The scan s follows the webhook w: w answered 200, s requested the link w
\* built, and no other write of w's order id ran between the two.
ScanFollows(w, s) ==
  /\ w \in 1..Len(reqs) /\ reqs[w].kind = "webhook" /\ Done(w) /\ reqs[w].status = 200
  /\ AnsweredRead(s) /\ reqs[s].kind = "scan"
  /\ reqs[s].param = RouteQr(reqs[w].link)
  /\ reqs[w].at < reqs[s].at
  /\ \A x \in WritesBefore(WriteId(w), reqs[s].at) : reqs[x].at <= reqs[w].at

\* percentEncode(MEDIA_BASE_URL + "/" + file), written out.
EncodedTierUrl(file) ==
  <<"https", "%", "3", "A", "%", "2", "F", "%", "2", "F", "cdn.example",
    "%", "2", "F", "videos", "%", "2", "F", file>>
ExpectedTarget(cents) ==
  HOST \o <<"/video-player.html?video=">> \o EncodedTierUrl(PolicyFile(cents))

ScansLinkOf(w, s) ==
  /\ w \in 1..Len(reqs) /\ s \in 1..Len(reqs)
  /\ reqs[w].kind \in {"webhook", "webhook2"} /\ Done(w) /\ reqs[w].link # <<>>
  /\ reqs[s].kind = "scan"
  /\ reqs[s].param = RouteQr(reqs[w].link)

\* C6 as claimed: for every order id, taken as opaque text, the order id
\* the scan handler extracts from the tag of a built link is that order id.
C6_ScanRoundTrip_AnyId ==
  \A w, s \in 1..Len(reqs) :
    ScansLinkOf(w, s) => reqs[s].orderId = IdToString(reqs[w].body.id)

\* C6, amended: the round trip holds for order ids that contain no "-".
C6_ScanRoundTrip ==
  \A w, s \in 1..Len(reqs) :
    (ScansLinkOf(w, s) /\ "-" \notin Range(IdToString(reqs[w].body.id)))
    => reqs[s].orderId = IdToString(reqs[w].body.id)

\* A non-numeric id with a ten-digit phone tag made the round trip.
C6_Witness ==
  \E w, s \in 1..Len(reqs) :
    /\ ScansLinkOf(w, s)
    /\ reqs[w].body.id = JStr(<<"a", "7">>)
    /\ reqs[w].body.phone = PhoneOf(10, {3})
    /\ reqs[s].orderId = <<"a", "7">>
    /\ Done(s) /\ reqs[s].status = 302

\* The phone tag of the link of webhook w: the text after orderId + "-".
PhoneTag(w) ==
  LET tag == RouteQr(reqs[w].link)
  IN SubSeq(tag, Len(IdToString(reqs[w].body.id)) + 2, Len(tag))
\* The number of digits of a phone of TagPhones, whose digits are those of
\* PhoneOf(n, {}) whatever its separators.
DigitCount(ph) == Cardinality({i \in 1..Len(ph) : ph[i] # "-"})
BuiltLink(w) ==
  w \in 1..Len(reqs) /\ reqs[w].kind \in {"webhook", "webhook2"} /\ reqs[w].link # <<>>

C8_AbsentIs404 ==
  \A g \in 1..Len(reqs) :
    (AnsweredRead(g) /\ WritesBefore(ReadId(g), reqs[g].at) = {})
    => reqs[g].status = 404

\* A get and a scan of absent ids answered 404 while another id had a record.
C8_Witness ==
  \E g, s, w \in 1..Len(reqs) :
    /\ AnsweredRead(g) /\ reqs[g].kind = "get" /\ reqs[g].status = 404
    /\ AnsweredRead(s) /\ reqs[s].kind = "scan" /\ reqs[s].status = 404
    /\ CompletedWrite(w)
    /\ reqs[w].at < reqs[g].at /\ reqs[w].at < reqs[s].at
    /\ WriteId(w) # ReadId(g) /\ WriteId(w) # ReadId(s)

\* C9: an upsert with an empty or missing orderId or videoUrl is refused
\* and leaves the store unchanged: a manual save without videoUrl answers
\* 400, a webhook event without an order id stores no record.
C9_EmptyArgumentRefused ==
  \A j \in 1..Len(reqs) :
    /\ (Done(j) /\ reqs[j].kind = "save" /\ ~Truthy(reqs[j].videoUrlIn))
       => reqs[j].status = 400 /\ ~reqs[j].wrote
    /\ (Done(j) /\ reqs[j].kind = "webhook"
          /\ (reqs[j].body.id = JUndef \/ reqs[j].body.id = JStr(<<>>)))
       => reqs[j].status # 200 /\ ~reqs[j].wrote
          /\ RowsOf(<<>>) = {}

\* A write request whose statement has not run yet.
PendingWrite(j) == j \in 1..Len(reqs) /\ IsWrite(j) /\ reqs[j].pc = "db"
\* The URL a read reports: the body of a get, the target of a redirect.
Reports(g, url) ==
  IF reqs[g].kind = "get" THEN reqs[g].out = url
  ELSE reqs[g].out = HOST \o <<"/video-player.html?video=">> \o encodeURIComponent(url)

\* C10: under any interleaving of upserts and reads of one order id, a read
\* observes either no record or the whole value of an upsert that already
\* ran, and once no upsert of the id is in flight the store holds exactly
\* one record for it, with the value one of the upserts wrote.
C10_UpsertIsAtomic ==
  /\ \A g \in 1..Len(reqs) :
       (AnsweredRead(g) /\ reqs[g].status # 404)
       => \E j \in WritesBefore(ReadId(g), reqs[g].at) : Reports(g, WriteUrl(j))
  /\ \A id \in {WriteId(j) : j \in {k \in 1..Len(reqs) : CompletedWrite(k)}} :
       (\A j \in 1..Len(reqs) : PendingWrite(j) => WriteId(j) # id)
       => /\ Cardinality(RowsOf(id)) = 1
          /\ \E j \in WritesBefore(id, clock + 1) : RowsOf(id) = {Row(id, WriteUrl(j))}

\* A read arrived first, then two upserts of its id with different URLs;
\* the later upsert ran first, the read ran between the two and reported
\* the value of the upsert that had run.
C10_Witness ==
  \E g, a, b \in 1..Len(reqs) :
    /\ g < a /\ a < b
    /\ AnsweredRead(g) /\ CompletedWrite(a) /\ CompletedWrite(b)
    /\ WriteId(a) = ReadId(g) /\ WriteId(b) = ReadId(g)
    /\ WriteUrl(a) # WriteUrl(b)
    /\ reqs[b].at < reqs[g].at /\ reqs[g].at < reqs[a].at
    /\ Reports(g, WriteUrl(b))
    /\ RowsOf(ReadId(g)) = {Row(ReadId(g), WriteUrl(a))}

\* The requests that changed in a step.
Stepped == {i \in 1..Len(reqs) : reqs'[i] # reqs[i]}

\* C11: no store statement (upsert, get, enrichment lookup, scan lookup)
\* runs against the table before the create-if-absent initialization has
\* completed, whenever the request arrived: while dbPromise is pending no
\* handler sends a statement, and the table does not change.
C11_GateBeforeStatements ==
  [][/\ \A i \in 1..Len(reqs) : reqs'[i].tries # reqs[i].tries => dbState = "ready"
     /\ orders' # orders => dbState = "ready"
     /\ dbState = "opening" => clock' = 0]_vars

\* A save, a listing and a scan arrived during the initialization and wait
\* for it: none has sent a statement.
C11_Witness ==
  /\ dbState = "opening"
  /\ clock = 0
  /\ \E a, b, c \in 1..Len(reqs) :
       /\ reqs[a].kind = "save" /\ reqs[a].pc = "db"
       /\ reqs[b].kind = "list" /\ reqs[b].pc = "db" /\ reqs[b].fetched
       /\ reqs[c].kind = "scan" /\ reqs[c].pc = "db"

\* C12: every error raised while a request is handled, a failure of the
\* store or of its initialization included, is caught in the handler and
\* answered with a status code; no error leaves a handler unhandled.
C12_NoErrorEscapes ==
  \A i \in 1..Len(reqs) :
    /\ reqs[i].pc # "escaped"
    /\ (reqs[i].ioerr \/ reqs[i].qrerr) => Done(i) /\ reqs[i].status = 500

\* C13: when the store fails during a manual save the request answers 500,
\* the store is as it was before the statement, and the handler sends one
\* statement per request: no retry.
C13_SaveFailsOnce ==
  [][\A i \in Stepped :
       reqs[i].kind = "save"
       => /\ reqs[i].tries = 0
          /\ reqs'[i].tries <= 1
          /\ reqs'[i].pc = "done"
          /\ reqs'[i].ioerr => /\ reqs'[i].status = 500
                                /\ ~reqs'[i].wrote
                                /\ orders' = orders]_vars

\* A webhook stored a URL for an id; a later manual save of the id failed in
\* the store after one statement, answered 500, and the webhook's URL stays.
C13_Witness ==
  \E a, b \in 1..Len(reqs) :
    /\ CompletedWrite(a) /\ reqs[a].kind = "webhook"
    /\ reqs[b].kind = "save" /\ Done(b) /\ reqs[b].ioerr /\ dbState = "ready"
    /\ WriteId(b) = WriteId(a) /\ WriteUrl(b) # WriteUrl(a)
    /\ reqs[a].at < reqs[b].at
    /\ reqs[b].tries = 1 /\ reqs[b].status = 500
    /\ RowsOf(WriteId(a)) = {Row(WriteId(a), WriteUrl(a))}

\* The URL stored for the key id when the statement at position t ran, the
\* empty text when no write of the key had run.
StoredAt(id, t) ==
  IF WritesBefore(id, t) = {} THEN <<>> ELSE WriteUrl(LatestWrite(id, t))
\* A listing that got the platform's orders.
Listing(i) == i \in 1..Len(reqs) /\ reqs[i].kind = "list" /\ reqs[i].fetched
                /\ ~reqs[i].platform.apiError

\* C14: the enriched listing returns one entry per platform order, in the
\* platform's order, each with the URL stored for its id or the empty text
\* when the id has no record; an order without record neither fails the
\* listing nor drops the other orders.
C14_ListingEnriches ==
  \A i \in 1..Len(reqs) :
    (Listing(i) /\ Done(i) /\ ~reqs[i].ioerr)
    => /\ reqs[i].status = 200
       /\ Len(reqs[i].out) = Len(reqs[i].platform.ids)
       /\ \A k \in 1..Len(reqs[i].out) :
            /\ reqs[i].out[k].id = reqs[i].platform.ids[k]
            /\ reqs[i].out[k].video_url =
                 StoredAt(IdToString(reqs[i].platform.ids[k]), reqs[i].items[k].at)

\* A listing of orders 2 and 1 while only order 1 has a record: two entries,
\* in that order, the first with the empty text and the second with the URL.
C14_Witness ==
  \E i \in 1..Len(reqs) :
    /\ Listing(i) /\ Done(i) /\ reqs[i].status = 200
    /\ reqs[i].out = <<[id |-> JNum(2), video_url |-> <<>>],
                       [id |-> JNum(1), video_url |-> ManualUrl]>>

\* C15: GET /api/orders answers 400 when shop is missing and 403 when no
\* session is stored for the shop; in both cases the platform's orders API
\* is not called and the store is neither read nor written; the shop is
\* checked before the session is looked up.
C15_ListingGate ==
  \A i \in 1..Len(reqs) :
    reqs[i].kind = "list"
    => /\ ~Truthy(reqs[i].param)
            => /\ Done(i) /\ reqs[i].status = 400
               /\ ~reqs[i].loaded /\ ~reqs[i].fetched
               /\ reqs[i].tries = 0 /\ ~reqs[i].wrote
       /\ (Truthy(reqs[i].param) /\ ~reqs[i].platform.session)
            => /\ Done(i) /\ reqs[i].status = 403
               /\ reqs[i].loaded /\ ~reqs[i].fetched
               /\ reqs[i].tries = 0 /\ ~reqs[i].wrote

\* A listing without shop and without session answered 400, one with a shop
\* and no session answered 403, while the store holds a record.
C15_Witness ==
  \E a, b \in 1..Len(reqs) :
    /\ reqs[a].kind = "list" /\ reqs[a].param = undefined
    /\ ~reqs[a].platform.session /\ reqs[a].status = 400
    /\ reqs[b].kind = "list" /\ reqs[b].param = AppShop
    /\ ~reqs[b].platform.session /\ reqs[b].status = 403
    /\ orders # {}

\* C16: records are never deleted: an order id that has a record has one in
\* every later state, whatever saves, webhooks, reads and scans follow.
C16_NeverDeleted ==
  [][\A r \in orders : \E r2 \in orders' : r2.id = r.id]_vars

\* An id got a record, then another id was written and a read was answered:
\* both ids have a record.
C16_Witness ==
  \E a, b, c \in 1..Len(reqs) :
    /\ CompletedWrite(a) /\ CompletedWrite(b) /\ AnsweredRead(c)
    /\ WriteId(a) # WriteId(b)
    /\ reqs[a].at < reqs[b].at /\ reqs[b].at < reqs[c].at
    /\ RowsOf(WriteId(a)) # {} /\ RowsOf(WriteId(b)) # {}

\* A scan the store answered.
AnsweredScan(s) == AnsweredRead(s) /\ reqs[s].kind = "scan"

\* C17: a scan that found no record ends in 404 and is never retried or
\* answered again: a later upsert of its order id leaves the answered scan
\* as it is, and only a scan that runs after the upsert answers 302.
C17_NotFoundIsFinal ==
  /\ [](\A s \in 1..Len(reqs) :
          AnsweredScan(s)
          => /\ WritesBefore(ReadId(s), reqs[s].at) = {} => reqs[s].status = 404
             /\ WritesBefore(ReadId(s), reqs[s].at) # {} => reqs[s].status = 302)
  /\ [][\A i \in Stepped : ~Done(i)]_vars

\* A scan answered 404, then a webhook stored its order id, then a second
\* scan of the same tag answered 302; the first scan is still a 404.
C17_Witness ==
  \E s1, w, s2 \in 1..Len(reqs) :
    /\ s1 < w /\ w < s2
    /\ AnsweredScan(s1) /\ CompletedWrite(w) /\ AnsweredScan(s2)
    /\ reqs[s1].param = reqs[s2].param
    /\ WriteId(w) = ReadId(s1)
    /\ reqs[s1].at < reqs[w].at /\ reqs[w].at < reqs[s2].at
    /\ reqs[s1].status = 404 /\ reqs[s1].tries = 1
    /\ reqs[s2].status = 302

\* C18: every new-order event that writes to the store has had its
\* signature validated: the webhook handler upserts only for requests that
\* carry a valid platform signature.
C18_WritesAreSigned ==
  \A j \in 1..Len(reqs) :
    (reqs[j].kind = "webhook" /\ reqs[j].tries > 0) => reqs[j].hmacOk

\* C19: the answer to a scan depends on the text of the tag before the
\* first "-" and on the store only: two scans whose tags have that text in
\* common, with no write of that order id between them, get the same
\* status and the same redirect target whatever follows the "-".
C19_SuffixIgnored ==
  \A s1, s2 \in 1..Len(reqs) :
    (/\ AnsweredScan(s1) /\ AnsweredScan(s2)
     /\ reqs[s1].at < reqs[s2].at
     /\ TagOrderId(reqs[s1].param) = TagOrderId(reqs[s2].param)
     /\ \A w \in WritesBefore(TagOrderId(reqs[s1].param), reqs[s2].at) :
          reqs[w].at < reqs[s1].at)
    => /\ reqs[s1].status = reqs[s2].status
       /\ reqs[s1].out = reqs[s2].out

\* Two scans of one order id, one with the tag "unknown" and one with
\* another suffix, both redirected to the same target.
C19_Witness ==
  \E s1, s2 \in 1..Len(reqs) :
    /\ AnsweredScan(s1) /\ AnsweredScan(s2)
    /\ TagOrderId(reqs[s1].param) = TagOrderId(reqs[s2].param)
    /\ reqs[s1].param = TagOrderId(reqs[s1].param) \o <<"-", "unknown">>
    /\ reqs[s2].param # reqs[s1].param
    /\ reqs[s1].status = 302 /\ reqs[s2].status = 302
    /\ reqs[s1].out = reqs[s2].out

\* C20: a write for an order id leaves the record of every other id as it
\* is, and the reads (get, enriched listing, QR preview, scan redirect), the
\* arrival of a request and the opening of the store leave the whole store
\* as it is.
C20_Frame ==
  [][/\ \A i \in Stepped :
          IF IsWrite(i)
          THEN \A r \in orders \cup orders' :
                 r.id # WriteId(i) => (r \in orders /\ r \in orders')
          ELSE orders' = orders
     /\ Stepped = {} => orders' = orders]_vars

\* The webhook stored order 1, a manual save stored order 2, a listing read
\* both: each record holds what its own write stored.
C20_Witness ==
  \E a, b, c \in 1..Len(reqs) :
    /\ CompletedWrite(a) /\ reqs[a].kind = "webhook"
    /\ CompletedWrite(b) /\ reqs[b].kind = "save" /\ WriteId(b) # WriteId(a)
    /\ Listing(c) /\ Done(c) /\ reqs[c].status = 200
    /\ reqs[a].at < reqs[b].at /\ reqs[b].at < reqs[c].at
    /\ orders = {Row(WriteId(a), WriteUrl(a)), Row(WriteId(b), WriteUrl(b))}

\* A webhook whose QR encoding failed.
EncodingFailed(j) ==
  j \in 1..Len(reqs) /\ reqs[j].kind = "webhook" /\ Done(j) /\ reqs[j].qrerr

\* C21: the webhook stores the record before it builds and encodes the scan
\* link, so it is not all-or-nothing: when the encoding fails after the
\* upsert succeeded the request answers 500, the record of the order is
\* stored all the same, and a later scan of that order id answers 302.
C21_StoredDespiteQrFailure ==
  \A j \in 1..Len(reqs) :
    EncodingFailed(j)
    => /\ reqs[j].status = 500
       /\ reqs[j].wrote /\ reqs[j].tries = 1
       /\ RowsOf(WriteId(j)) # {}
       /\ j = LatestWrite(WriteId(j), clock + 1)
            => RowsOf(WriteId(j)) = {Row(WriteId(j), WriteUrl(j))}
       /\ \A s \in 1..Len(reqs) :
            (AnsweredScan(s) /\ ReadId(s) = WriteId(j) /\ reqs[j].at < reqs[s].at)
            => reqs[s].status = 302

\* The only write of an order id is a webhook that answered 500 because the
\* encoding failed; a scan of the id that ran afterwards is redirected to
\* the URL that webhook stored.
C21_Witness ==
  \E j, s \in 1..Len(reqs) :
    /\ EncodingFailed(j) /\ reqs[j].status = 500
    /\ AnsweredScan(s) /\ ReadId(s) = WriteId(j)
    /\ WritesBefore(WriteId(j), reqs[s].at) = {j}
    /\ reqs[s].status = 302
    /\ reqs[s].out = RedirectTarget(WriteUrl(j))

====
